---- MODULE Spec2Model ----
(***************************************************************************)
(* Model of slate's Tauri backend (src-tauri/src/main.rs): the two         *)
(* commands generate_site and save_zip, and the helper                      *)
(* extract_json_triple.                                                     *)
(*                                                                          *)
(* A text is a sequence of one-character strings.  Every character of the   *)
(* modelled alphabet is ASCII, so a Rust byte index into the &str is the    *)
(* index into the sequence minus one.  The alphabet holds no backslash and  *)
(* no control character, so JSON string escapes do not arise.               *)
(***************************************************************************)
EXTENDS Integers, Sequences, FiniteSets, TLC

VARIABLES gpc, posts, stages, status, text, gresult,
          spc, fs, bytes, picked, pb, written, before, cause, sresult

gvars == <<gpc, posts, stages, status, text, gresult>>
svars == <<spc, fs, bytes, picked, pb, written, before, cause, sresult>>
vars == <<gpc, posts, stages, status, text, gresult,
          spc, fs, bytes, picked, pb, written, before, cause, sresult>>

----------------------------------------------------------------------------
(* Bounds *)

\* A response text is a concatenation of at most MaxChunks chunks.
MaxChunks == 3

\* A saved byte sequence has at most MaxBytes bytes.
MaxBytes == 1

----------------------------------------------------------------------------
(* Characters and the texts the inference server may answer with *)

Q == "\""

WS == {" ", "\n", "\t", "\r"}

Digits == {"0", "1", "2", "3", "4", "5", "6", "7", "8", "9"}

kHtml == <<"h", "t", "m", "l">>
kCss == <<"c", "s", "s">>
kJs == <<"j", "s">>

\* "<h1>Hi</h1>"
vHi == <<"<", "h", "1", ">", "H", "i", "<", "/", "h", "1", ">">>
\* "h1{color:red}"
vRed == <<"h", "1", "{", "c", "o", "l", "o", "r", ":", "r", "e", "d", "}">>

JStr(cs) == <<Q>> \o cs \o <<Q>>

Member(k, v) == JStr(k) \o <<":">> \o v

RECURSIVE Join(_, _)
Join(parts, sep) ==
    IF parts = <<>> THEN <<>>
    ELSE IF Len(parts) = 1 THEN parts[1]
    ELSE parts[1] \o sep \o Join(Tail(parts), sep)

Obj(members) == <<"{">> \o Join(members, <<",">>) \o <<"}">>

\* {"html":"<h1>Hi</h1>","css":"h1{color:red}","js":""}
ObjExample ==
    Obj(<<Member(kHtml, JStr(vHi)), Member(kCss, JStr(vRed)), Member(kJs, JStr(<<>>))>>)

\* { "js":"z", "css":"y", "html":"x" }
ObjSpaced ==
    <<"{", " ">> \o Join(<<Member(kJs, JStr(<<"z">>)), Member(kCss, JStr(<<"y">>)),
                           Member(kHtml, JStr(<<"x">>))>>, <<",", " ">>) \o <<" ", "}">>

\* {"css":"y","js":"z"}
ObjNoHtml == Obj(<<Member(kCss, JStr(<<"y">>)), Member(kJs, JStr(<<"z">>))>>)

\* {"html":"x","js":"z"}
ObjNoCss == Obj(<<Member(kHtml, JStr(<<"x">>)), Member(kJs, JStr(<<"z">>))>>)

\* {"html":"x","css":"y"}
ObjNoJs == Obj(<<Member(kHtml, JStr(<<"x">>)), Member(kCss, JStr(<<"y">>))>>)

\* {"html":1,"css":"y"}
ObjNumHtmlNoJs == Obj(<<Member(kHtml, <<"1">>), Member(kCss, JStr(<<"y">>))>>)

\* {"html":"a","css":"b","js":"c","k":
Enclosing ==
    <<"{">> \o Join(<<Member(kHtml, JStr(<<"a">>)), Member(kCss, JStr(<<"b">>)),
                      Member(kJs, JStr(<<"c">>))>>, <<",">>)
            \o <<",">> \o JStr(<<"k">>) \o <<":">>

Sure == <<"S", "u", "r", "e", "!", " ">>

Hope == <<" ", "H", "o", "p", "e", " ", "t", "h", "a", "t", " ",
          "h", "e", "l", "p", "s", "!">>

Chunks ==
    { Sure, Hope, <<"{">>, <<"}">>, <<" ">>,
      ObjExample, ObjSpaced, ObjNoHtml, ObjNoCss, ObjNoJs, ObjNumHtmlNoJs,
      Enclosing }

RECURSIVE TextsOf(_)
TextsOf(n) ==
    IF n = 0 THEN { <<>> }
    ELSE LET shorter == TextsOf(n - 1)
         IN shorter \cup { t \o c : t \in shorter, c \in Chunks }

Texts == TextsOf(MaxChunks)

----------------------------------------------------------------------------
(* serde_json::from_str::<Value>, on the modelled alphabet *)

\* A parse result.  err is the message of serde_json's error code; its Display
\* appends " at line L column C", which no property below reads.

Fail(msg) == [ok |-> FALSE, pos |-> 0, val |-> [t |-> "none", s |-> <<>>, m |-> <<>>], err |-> msg]

Done(p, v) == [ok |-> TRUE, pos |-> p, val |-> v, err |-> ""]

Val(t, s, m) == [t |-> t, s |-> s, m |-> m]

RECURSIVE SkipWs(_, _)
SkipWs(s, i) ==
    IF i <= Len(s) /\ s[i] \in WS THEN SkipWs(s, i + 1) ELSE i

RECURSIVE SkipDigits(_, _)
SkipDigits(s, i) ==
    IF i <= Len(s) /\ s[i] \in Digits THEN SkipDigits(s, i + 1) ELSE i

\* The characters of a string whose opening quote is before index i.
RECURSIVE ScanString(_, _, _)
ScanString(s, i, acc) ==
    IF i > Len(s) THEN Fail("EOF while parsing a string")
    ELSE IF s[i] = Q THEN Done(i + 1, Val("str", acc, <<>>))
    ELSE ScanString(s, i + 1, Append(acc, s[i]))

\* true, false, null: the first letter is at i.
ParseIdent(s, i, rest, t) ==
    IF i + Len(rest) > Len(s) THEN Fail("EOF while parsing a value")
    ELSE IF SubSeq(s, i + 1, i + Len(rest)) = rest
         THEN Done(i + Len(rest) + 1, Val(t, <<>>, <<>>))
         ELSE Fail("expected ident")

\* An optional exponent at i, after the integer and fraction parts.
ParseExponent(s, i) ==
    IF i <= Len(s) /\ s[i] \in {"e", "E"}
    THEN LET j == IF i + 1 <= Len(s) /\ s[i + 1] \in {"+", "-"} THEN i + 2 ELSE i + 1
             k == SkipDigits(s, j)
         IN IF j > Len(s) THEN Fail("EOF while parsing a value")
            ELSE IF k = j THEN Fail("invalid number")
            ELSE Done(k, Val("num", <<>>, <<>>))
    ELSE Done(i, Val("num", <<>>, <<>>))

\* A number whose first digit is at i (a leading minus sign already passed).
ParseNumber(s, i) ==
    IF i > Len(s) THEN Fail("EOF while parsing a value")
    ELSE IF s[i] \notin Digits THEN Fail("invalid number")
    ELSE LET j == IF s[i] = "0" THEN i + 1 ELSE SkipDigits(s, i)
         IN IF s[i] = "0" /\ j <= Len(s) /\ s[j] \in Digits THEN Fail("invalid number")
            ELSE IF j <= Len(s) /\ s[j] = "."
                 THEN LET k == SkipDigits(s, j + 1)
                      IN IF j + 1 > Len(s) THEN Fail("EOF while parsing a value")
                         ELSE IF k = j + 1 THEN Fail("invalid number")
                         ELSE ParseExponent(s, k)
                 ELSE ParseExponent(s, j)

RECURSIVE ParseValue(_, _), ParseMembers(_, _, _), ParseElems(_, _)

\* A value starting at or after i (leading whitespace skipped).
ParseValue(s, i0) ==
    LET i == SkipWs(s, i0)
    IN IF i > Len(s) THEN Fail("EOF while parsing a value")
       ELSE IF s[i] = "n" THEN ParseIdent(s, i, <<"u", "l", "l">>, "null")
       ELSE IF s[i] = "t" THEN ParseIdent(s, i, <<"r", "u", "e">>, "bool")
       ELSE IF s[i] = "f" THEN ParseIdent(s, i, <<"a", "l", "s", "e">>, "bool")
       ELSE IF s[i] = "-" THEN ParseNumber(s, i + 1)
       ELSE IF s[i] \in Digits THEN ParseNumber(s, i)
       ELSE IF s[i] = Q THEN ScanString(s, i + 1, <<>>)
       ELSE IF s[i] = "["
            THEN LET j == SkipWs(s, i + 1)
                 IN IF j > Len(s) THEN Fail("EOF while parsing a list")
                    ELSE IF s[j] = "]" THEN Done(j + 1, Val("arr", <<>>, <<>>))
                    ELSE ParseElems(s, j)
       ELSE IF s[i] = "{"
            THEN LET j == SkipWs(s, i + 1)
                 IN IF j > Len(s) THEN Fail("EOF while parsing an object")
                    ELSE IF s[j] = "}" THEN Done(j + 1, Val("obj", <<>>, <<>>))
                    ELSE ParseMembers(s, j, <<>>)
       ELSE Fail("expected value")

\* The elements of an array, the next one starting at i.
ParseElems(s, i) ==
    LET v == ParseValue(s, i)
        d == SkipWs(s, v.pos)
    IN IF ~v.ok THEN v
       ELSE IF d > Len(s) THEN Fail("EOF while parsing a list")
       ELSE IF s[d] = ","
            THEN LET e == SkipWs(s, d + 1)
                 IN IF e <= Len(s) /\ s[e] = "]" THEN Fail("trailing comma")
                    ELSE ParseElems(s, e)
       ELSE IF s[d] = "]" THEN Done(d + 1, Val("arr", <<>>, <<>>))
       ELSE Fail("expected comma or bracket")

\* The members of an object, the next key starting at i; m holds the members
\* read so far (a later duplicate of a key replaces the earlier one).
ParseMembers(s, i, m) ==
    IF i > Len(s) THEN Fail("EOF while parsing an object")
    ELSE IF s[i] # Q THEN Fail("key must be a string")
    ELSE LET k == ScanString(s, i + 1, <<>>)
             c == SkipWs(s, k.pos)
             v == ParseValue(s, c + 1)
             d == SkipWs(s, v.pos)
             m2 == [x \in (DOMAIN m) \cup {k.val.s} |-> IF x = k.val.s THEN v.val ELSE m[x]]
         IN IF ~k.ok THEN k
            ELSE IF c > Len(s) THEN Fail("EOF while parsing an object")
            ELSE IF s[c] # ":" THEN Fail("expected colon")
            ELSE IF ~v.ok THEN v
            ELSE IF d > Len(s) THEN Fail("EOF while parsing an object")
            ELSE IF s[d] = ","
                 THEN LET e == SkipWs(s, d + 1)
                      IN IF e <= Len(s) /\ s[e] = "}" THEN Fail("trailing comma")
                         ELSE ParseMembers(s, e, m2)
            ELSE IF s[d] = "}" THEN Done(d + 1, Val("obj", <<>>, m2))
            ELSE Fail("expected comma or brace")

\* serde_json::from_str: one value, then nothing but whitespace.
FromStr(s) ==
    LET v == ParseValue(s, 1)
    IN IF ~v.ok THEN v
       ELSE IF SkipWs(s, v.pos) <= Len(s) THEN Fail("trailing characters")
       ELSE v

\* v.get(key).and_then(|x| x.as_str())
GetStr(v, key) ==
    IF v.t = "obj" /\ key \in DOMAIN v.m /\ v.m[key].t = "str"
    THEN [some |-> TRUE, s |-> v.m[key].s]
    ELSE [some |-> FALSE, s |-> <<>>]

----------------------------------------------------------------------------
(* extract_json_triple *)

NoTriple == [html |-> <<>>, css |-> <<>>, js |-> <<>>]

XOk(t) == [kind |-> "ok", triple |-> t, msg |-> ""]
XErr(msg) == [kind |-> "err", triple |-> NoTriple, msg |-> msg]
XPanic == [kind |-> "panic", triple |-> NoTriple, msg |-> ""]

HasChar(s, ch) == \E i \in 1..Len(s) : s[i] = ch

Some(i) == [some |-> TRUE, i |-> i]
None == [some |-> FALSE, i |-> 0]

\* A find that scans from the back where the code scans from the front.
FindLast(s, ch) ==
    IF HasChar(s, ch)
    THEN Some(CHOOSE i \in 1..Len(s) : s[i] = ch /\ \A j \in (i + 1)..Len(s) : s[j] # ch)
    ELSE None

\* s.find(ch): the first index of ch in s, if any.
Find(s, ch) ==
    IF HasChar(s, ch)
    THEN Some(CHOOSE i \in 1..Len(s) : s[i] = ch /\ \A j \in 1..(i - 1) : s[j] # ch)
    ELSE None

\* A find that scans from the front where the code scans from the back.
RFindFirst(s, ch) ==
    IF HasChar(s, ch)
    THEN Some(CHOOSE i \in 1..Len(s) : s[i] = ch /\ \A j \in 1..(i - 1) : s[j] # ch)
    ELSE None

\* A find that takes the end of the text when ch is absent.
RFindOrLen(s, ch) ==
    IF HasChar(s, ch) THEN Some(CHOOSE i \in 1..Len(s) : s[i] = ch /\ \A j \in (i + 1)..Len(s) : s[j] # ch)
    ELSE Some(Len(s))

\* s.rfind(ch): the last index of ch in s, if any.
RFind(s, ch) ==
    IF HasChar(s, ch)
    THEN Some(CHOOSE i \in 1..Len(s) : s[i] = ch /\ \A j \in (i + 1)..Len(s) : s[j] # ch)
    ELSE None

\* &s[start..=end] is s[start..end+1]: it panics when start exceeds end + 1,
\* and with start = end + 1 the range is empty and the slice is "".
SlicePanics(start, end) == start > end + 1

\* A field check that reports any missing field as a parse failure.
TripleOfGeneric(v) ==
    LET html == GetStr(v, kHtml)
        css == GetStr(v, kCss)
        js == GetStr(v, kJs)
    IN IF html.some /\ css.some /\ js.some
       THEN XOk([html |-> html.s, css |-> css.s, js |-> js.s])
       ELSE XErr("expected value")

\* The three fields of the parsed value, html first, then css, then js.
TripleOf(v) ==
    LET html == GetStr(v, kHtml)
        css == GetStr(v, kCss)
        js == GetStr(v, kJs)
    IN IF ~html.some THEN XErr("missing html")
       ELSE IF ~css.some THEN XErr("missing css")
       ELSE IF ~js.some THEN XErr("missing js")
       ELSE XOk([html |-> html.s, css |-> css.s, js |-> js.s])

extract_json_triple(s) ==
    LET start == Find(s, "{")
        end == RFind(s, "}")
        v == FromStr(SubSeq(s, start.i, end.i))
    IN IF ~start.some THEN XErr("No JSON start")
       ELSE IF ~end.some THEN XErr("No JSON end")
       ELSE IF SlicePanics(start.i, end.i) THEN XPanic
       ELSE IF ~v.ok THEN XErr(v.err)
       ELSE TripleOf(v.val)

----------------------------------------------------------------------------
(* generate_site *)

\* What the request to the inference server can fail with.
SendErrors == {"error sending request", "operation timed out"}

\* What decoding the body as OllamaResp can fail with.
DecodeErrors == {"error decoding response body"}

\* The statuses the inference server may answer with.
Statuses == {200, 299, 300, 404, 500}

\* Display of a StatusCode: the number and its canonical reason.
StatusText(st) ==
    CASE st = 200 -> "200 OK"
      [] st = 299 -> "299 <unknown status code>"
      [] st = 300 -> "300 Multiple Choices"
      [] st = 404 -> "404 Not Found"
      [] st = 500 -> "500 Internal Server Error"

\* A status check that takes every status from 200 up as a success.
is_success_from_200(st) == st >= 200

\* StatusCode::is_success
is_success(st) == 200 <= st /\ st < 300

NoResult == [kind |-> "none", triple |-> NoTriple, msg |-> ""]

GOk(t) == [kind |-> "ok", triple |-> t, msg |-> ""]

\* format!("<prefix>{e}")
GErr(prefix, e) == [kind |-> "err", triple |-> NoTriple, msg |-> prefix \o e]

GenInit ==
    /\ gpc = "idle"
    /\ posts = 0
    /\ stages = <<>>
    /\ status = 0
    /\ text = <<>>
    /\ gresult = NoResult

\* The UI invokes generate_site; the request body is built from the arguments.
GenInvoke ==
    /\ gpc = "idle"
    /\ UNCHANGED svars
    /\ gpc' = "send"
    /\ UNCHANGED <<posts, stages, status, text, gresult>>

\* A send failure that posts the request again.
SendFailedRetry(e) ==
    /\ gpc' = "send"
    /\ gresult' = gresult

\* .map_err(|e| format!("Ollama request failed: {e}"))?
SendFailed(e) ==
    /\ gpc' = "done"
    /\ gresult' = GErr("Ollama request failed: ", e)

\* client.post(...).json(&body).send().await
GenSend ==
    /\ gpc = "send"
    /\ UNCHANGED svars
    /\ posts' = posts + 1
    /\ stages' = Append(stages, "send")
    /\ \/ \E e \in SendErrors :
            /\ SendFailed(e)
            /\ UNCHANGED <<status, text>>
       \/ \E st \in Statuses :
            /\ status' = st
            /\ gpc' = "status"
            /\ UNCHANGED <<text, gresult>>

\* if !res.status().is_success() { return Err(...) }
GenStatus ==
    /\ gpc = "status"
    /\ UNCHANGED svars
    /\ stages' = Append(stages, "status")
    /\ IF ~is_success(status)
       THEN /\ gresult' = GErr("Ollama error status: ", StatusText(status))
            /\ gpc' = "done"
       ELSE /\ gpc' = "decode"
            /\ gresult' = gresult
    /\ UNCHANGED <<posts, status, text>>

\* res.json().await: the body is read and decoded as OllamaResp
GenDecode ==
    /\ gpc = "decode"
    /\ UNCHANGED svars
    /\ stages' = Append(stages, "decode")
    /\ \/ \E e \in DecodeErrors :
            /\ gresult' = GErr("Invalid JSON: ", e)
            /\ gpc' = "done"
            /\ text' = text
       \/ \E t \in Texts :
            /\ text' = t
            /\ gpc' = "extract"
            /\ gresult' = gresult
    /\ UNCHANGED <<posts, status>>

\* extract_json_triple(&data.response).map_err(|e| format!("Parse error: {e}"))?
GenExtract ==
    /\ gpc = "extract"
    /\ UNCHANGED svars
    /\ stages' = Append(stages, "extract")
    /\ LET r == extract_json_triple(text)
       IN CASE r.kind = "panic" -> gpc' = "panicked" /\ gresult' = gresult
            [] r.kind = "err" -> gpc' = "done" /\ gresult' = GErr("Parse error: ", r.msg)
            [] r.kind = "ok" -> gpc' = "done" /\ gresult' = GOk(r.triple)
    /\ UNCHANGED <<posts, status, text>>

\* The invocation is over (its result delivered, or its task panicked).
GenReturn ==
    /\ gpc \in {"done", "panicked"}
    /\ UNCHANGED svars
    /\ gpc' = "idle"
    /\ posts' = 0
    /\ stages' = <<>>
    /\ status' = 0
    /\ text' = <<>>
    /\ gresult' = NoResult

NextGen ==
    \/ GenInvoke
    \/ GenSend
    \/ GenStatus
    \/ GenDecode
    \/ GenExtract
    \/ GenReturn

----------------------------------------------------------------------------
(* save_zip *)

\* Paths are byte sequences: "a", the single byte 0xFF (no valid UTF-8), and
\* the UTF-8 encoding of U+FFFD.
PathA == <<97>>
PathBad == <<255>>
PathRepl == <<239, 191, 189>>

Paths == {PathA, PathBad, PathRepl}

\* The bytes a saved sequence is made of.
ByteVals == {0, 1}

RECURSIVE SeqsUpTo(_, _)
SeqsUpTo(S, n) ==
    IF n = 0 THEN { <<>> }
    ELSE LET shorter == SeqsUpTo(S, n - 1)
         IN shorter \cup { Append(q, x) : q \in shorter, x \in S }

ByteSeqs == SeqsUpTo(ByteVals, MaxBytes)

\* What the dialog returns: None (canceled), FilePath::Path or FilePath::Url.
Canceled == [tag |-> "none", host |-> "", path |-> <<>>]
FilePathPath(p) == [tag |-> "path", host |-> "", path |-> p]
FilePathUrl(h, p) == [tag |-> "url", host |-> h, path |-> p]

Hosts == {"", "example.com"}

DialogResults ==
    {Canceled} \cup { FilePathPath(p) : p \in Paths }
               \cup { FilePathUrl(h, p) : h \in Hosts, p \in Paths }

\* What std::fs::write can fail with.
IoErrors == {"Permission denied (os error 13)", "No space left on device (os error 28)"}

Absent == [exists |-> FALSE, data |-> <<>>]
File(d) == [exists |-> TRUE, data |-> d]

\* Path::to_string_lossy, as the bytes of the returned String: ASCII bytes and
\* the encoding of U+FFFD are kept, the byte 0xFF becomes U+FFFD.  (Paths holds
\* no other byte.)
RECURSIVE to_string_lossy(_)
to_string_lossy(p) ==
    IF p = <<>> THEN <<>>
    ELSE IF p[1] < 128 THEN <<p[1]>> \o to_string_lossy(Tail(p))
    ELSE IF Len(p) >= 3 /\ SubSeq(p, 1, 3) = PathRepl
         THEN PathRepl \o to_string_lossy(SubSeq(p, 4, Len(p)))
    ELSE PathRepl \o to_string_lossy(Tail(p))

\* The file a path string names, when the string is used as a path again.
ReadBack(str) == IF str \in DOMAIN fs THEN fs[str] ELSE Absent

SNone == [kind |-> "none", path |-> <<>>, msg |-> ""]
SOk(str) == [kind |-> "ok", path |-> str, msg |-> ""]
SErr(msg) == [kind |-> "err", path |-> <<>>, msg |-> msg]

\* Url::to_file_path: fails unless the host is empty or localhost.
to_file_path(u) ==
    IF u.host \in {"", "localhost"} THEN [ok |-> TRUE, path |-> u.path]
    ELSE [ok |-> FALSE, path |-> <<>>]

\* A resolution that writes to a fixed place whatever the user picked.
ResolveFixed(fp) == [ok |-> TRUE, path |-> PathA]

\* match file_path { FilePath::Path(p) => p, FilePath::Url(u) => u.to_file_path() }
Resolve(fp) ==
    IF fp.tag = "path" THEN [ok |-> TRUE, path |-> fp.path]
    ELSE to_file_path(fp)

\* A write failure reported with the text of a cancellation.
WriteFailedAsCanceled(e) == "canceled"

\* format!("write failed: {e}")
WriteFailed(e) == "write failed: " \o e

Prefixes(b) == { SubSeq(b, 1, n) : n \in 0..(Len(b) - 1) }

SaveInit ==
    /\ spc = "idle"
    /\ fs = [p \in Paths |-> Absent]
    /\ bytes = <<>>
    /\ picked = Canceled
    /\ pb = <<>>
    /\ written = <<>>
    /\ before = [p \in Paths |-> Absent]
    /\ cause = "none"
    /\ sresult = SNone

\* The UI invokes save_zip with the bytes to save.
SaveInvoke ==
    /\ spc = "idle"
    /\ UNCHANGED gvars
    /\ \E b \in ByteSeqs : bytes' = b
    /\ before' = fs
    /\ spc' = "dialog"
    /\ UNCHANGED <<fs, picked, pb, written, cause, sresult>>

\* blocking_save_file(), and the let-else on its result
SaveDialog ==
    /\ spc = "dialog"
    /\ UNCHANGED gvars
    /\ \E r \in DialogResults :
         /\ picked' = r
         /\ IF r.tag = "none"
            THEN /\ sresult' = SErr("canceled")
                 /\ cause' = "cancel"
                 /\ spc' = "done"
            ELSE /\ spc' = "resolve"
                 /\ UNCHANGED <<sresult, cause>>
    /\ UNCHANGED <<fs, bytes, pb, written, before>>

\* let pb: PathBuf = match file_path { ... }
SaveResolve ==
    /\ spc = "resolve"
    /\ UNCHANGED gvars
    /\ LET r == Resolve(picked)
       IN IF r.ok
          THEN /\ pb' = r.path
               /\ spc' = "write"
               /\ UNCHANGED <<sresult, cause>>
          ELSE /\ sresult' = SErr("Invalid file URL")
               /\ cause' = "url"
               /\ spc' = "done"
               /\ pb' = pb
    /\ UNCHANGED <<fs, bytes, picked, written, before>>

\* std::fs::write(&pb, &bytes): the file is created or truncated, then the
\* bytes are written; it can fail before the file is opened, or after, leaving
\* a part of the bytes.
SaveWrite ==
    /\ spc = "write"
    /\ UNCHANGED gvars
    /\ written' = Append(written, pb)
    /\ spc' = "done"
    /\ \/ /\ fs' = [fs EXCEPT ![pb] = File(bytes)]
          /\ sresult' = SOk(to_string_lossy(pb))
          /\ cause' = cause
       \/ \E e \in IoErrors :
            /\ fs' = fs
            /\ sresult' = SErr(WriteFailed(e))
            /\ cause' = "write"
       \/ \E e \in IoErrors, d \in Prefixes(bytes) :
            /\ fs' = [fs EXCEPT ![pb] = File(d)]
            /\ sresult' = SErr(WriteFailed(e))
            /\ cause' = "write"
    /\ UNCHANGED <<bytes, picked, pb, before>>

\* The invocation is over.
SaveReturn ==
    /\ spc = "done"
    /\ UNCHANGED gvars
    /\ spc' = "idle"
    /\ bytes' = <<>>
    /\ picked' = Canceled
    /\ pb' = <<>>
    /\ written' = <<>>
    /\ before' = fs
    /\ cause' = "none"
    /\ sresult' = SNone
    /\ fs' = fs

NextSave ==
    \/ SaveInvoke
    \/ SaveDialog
    \/ SaveResolve
    \/ SaveWrite
    \/ SaveReturn

----------------------------------------------------------------------------
(* Specifications: the two commands share no state, so each is explored on  *)
(* its own, the other one's variables staying at their initial values.      *)

Init == GenInit /\ SaveInit

SpecGen == Init /\ [][NextGen]_vars

SpecSave == Init /\ [][NextSave]_vars

----------------------------------------------------------------------------
(* Properties of generate_site and extract_json_triple *)

AllStages == <<"send", "status", "decode", "extract">>

\* extract_json_triple has run on text in this invocation.
ExtractRan == stages = AllStages

Opens(t) == { i \in 1..Len(t) : t[i] = "{" }
Closes(t) == { i \in 1..Len(t) : t[i] = "}" }

Fields(v) == [html |-> GetStr(v, kHtml).s, css |-> GetStr(v, kCss).s, js |-> GetStr(v, kJs).s]

\* sub is a well-formed JSON object with string fields html, css and js.
IsTripleObject(sub) ==
    LET v == FromStr(sub)
    IN v.ok /\ GetStr(v.val, kHtml).some /\ GetStr(v.val, kCss).some /\ GetStr(v.val, kJs).some

\* The places <<i, j>> of the well-formed html/css/js objects in t.
Objects(t) ==
    { o \in Opens(t) \X Closes(t) : o[1] < o[2] /\ IsTripleObject(SubSeq(t, o[1], o[2])) }

TripleAt(t, o) == Fields(FromStr(SubSeq(t, o[1], o[2])).val)

OpenBefore(t, o) == \E i \in Opens(t) : i < o[1]
CloseAfter(t, o) == \E j \in Closes(t) : j > o[2]

\* C1 as stated: whenever the response text holds exactly one well-formed
\* html/css/js object, whatever surrounds it, generation returns Ok with
\* exactly that object's three strings.
C1_AnyCommentary ==
    (ExtractRan /\ Cardinality(Objects(text)) = 1) =>
        \A o \in Objects(text) : gpc = "done" /\ gresult = GOk(TripleAt(text, o))

\* C1, amended: whenever the response text holds exactly one well-formed
\* html/css/js object, with no '{' before it and no '}' after it, generation
\* returns Ok with exactly that object's three strings.
C1_CleanCommentary ==
    (ExtractRan /\ Cardinality(Objects(text)) = 1) =>
        \A o \in Objects(text) :
            (~OpenBefore(text, o) /\ ~CloseAfter(text, o)) =>
                gpc = "done" /\ gresult = GOk(TripleAt(text, o))

\* The example of the specification: commentary, the object, commentary.
C1_Witness ==
    /\ gpc = "done"
    /\ text = Sure \o ObjExample \o Hope
    /\ Cardinality(Objects(text)) = 1
    /\ gresult = GOk([html |-> vHi, css |-> vRed, js |-> <<>>])

\* C2: when the response text holds no '{' or no '}', extraction neither
\* panics nor returns a Triple, and generate_site returns the extraction
\* error "Parse error: No JSON start" or "Parse error: No JSON end".
C2_NoBraceIsError ==
    (ExtractRan /\ (Opens(text) = {} \/ Closes(text) = {})) =>
        /\ gpc = "done"
        /\ gresult.kind = "err"
        /\ gresult.triple = NoTriple
        /\ gresult.msg = IF Opens(text) = {} THEN "Parse error: No JSON start"
                         ELSE "Parse error: No JSON end"

C2_Witness ==
    /\ gpc = "done"
    /\ ExtractRan
    /\ text = Sure \o <<"{">> \o Hope
    /\ gresult.msg = "Parse error: No JSON end"

\* The slice the code takes, from the first '{' to the last '}', parsed.
FirstOpen(t) == CHOOSE i \in Opens(t) : \A k \in Opens(t) : i <= k
LastClose(t) == CHOOSE j \in Closes(t) : \A k \in Closes(t) : k <= j
HasBoth(t) == Opens(t) # {} /\ Closes(t) # {}
Parsed(t) == FromStr(SubSeq(t, FirstOpen(t), LastClose(t)))

Keys == <<kHtml, kCss, kJs>>
KeyName(k) == IF k = kHtml THEN "html" ELSE IF k = kCss THEN "css" ELSE "js"

\* The required keys that the parsed object lacks.
Lacking(v) == { n \in 1..3 : Keys[n] \notin DOMAIN v.m }
\* The required keys that are absent or hold something that is no string.
Unusable(v) == { n \in 1..3 : Keys[n] \notin DOMAIN v.m \/ v.m[Keys[n]].t # "str" }
FirstOf(S) == CHOOSE n \in S : \A k \in S : n <= k

ParsedLackingKey ==
    /\ ExtractRan
    /\ HasBoth(text)
    /\ FirstOpen(text) < LastClose(text)
    /\ Parsed(text).ok
    /\ Lacking(Parsed(text).val) # {}

\* C3 as stated: when the slice parses as JSON but lacks a required key,
\* the error names the absence of a key that is lacking.
C3_NamesLackingKey ==
    ParsedLackingKey =>
        /\ gpc = "done"
        /\ gresult.kind = "err"
        /\ gresult.triple = NoTriple
        /\ \E n \in Lacking(Parsed(text).val) :
               gresult.msg = "Parse error: missing " \o KeyName(Keys[n])

\* C3, amended: when the slice parses as JSON but lacks a required key, the
\* error is "missing K" for the first K among html, css, js that is absent or
\* is not a string; no Triple is returned.
C3_NamesFirstUnusableKey ==
    ParsedLackingKey =>
        /\ gpc = "done"
        /\ gresult.kind = "err"
        /\ gresult.triple = NoTriple
        /\ gresult.msg =
               "Parse error: missing " \o KeyName(Keys[FirstOf(Unusable(Parsed(text).val))])

C3_Witness ==
    /\ gpc = "done"
    /\ ExtractRan
    /\ text = Sure \o ObjNoCss
    /\ gresult.msg = "Parse error: missing css"

\* C4: the stages run in the order send, status check, body decode,
\* extraction, each only after the earlier ones succeeded; a status outside
\* 200..299 ends the call with an error before body decode and extraction;
\* Ok is returned only after all four stages.
C4_StagesInOrder ==
    /\ Len(stages) <= 4
    /\ stages = SubSeq(AllStages, 1, Len(stages))
    /\ (Len(stages) >= 2 /\ status \notin 200..299) =>
           /\ stages = <<"send", "status">>
           /\ gpc = "done"
           /\ gresult = GErr("Ollama error status: ", StatusText(status))
    /\ Len(stages) >= 3 => status \in 200..299
    /\ gresult.msg \in { "Ollama request failed: " \o e : e \in SendErrors } =>
           stages = <<"send">>
    /\ gresult.msg \in { "Invalid JSON: " \o e : e \in DecodeErrors } =>
           stages = <<"send", "status", "decode">>
    /\ gresult.kind = "ok" => stages = AllStages /\ status \in 200..299

C4_Witness ==
    /\ gpc = "done"
    /\ status = 404
    /\ stages = <<"send", "status">>
    /\ gresult = GErr("Ollama error status: ", "404 Not Found")

C9_SilentlyWrong ==
    ExtractRan =>
        \A o \in Objects(text) :
            (OpenBefore(text, o) \/ CloseAfter(text, o)) =>
                gresult.kind = "ok" /\ gresult.triple # TripleAt(text, o)

\* C9, amended: whenever a '{' precedes a well-formed html/css/js object of
\* the text or a '}' follows it, extraction fails with an error, unless
\* braces stray on both sides; only then can it return Ok.
C9_StrayBraceFails ==
    ExtractRan =>
        \A o \in Objects(text) :
            (OpenBefore(text, o) \/ CloseAfter(text, o)) =>
                /\ gpc = "done"
                /\ \/ gresult.kind = "err"
                   \/ gresult.kind = "ok" /\ OpenBefore(text, o) /\ CloseAfter(text, o)

C9_Witness ==
    /\ gpc = "done"
    /\ text = ObjExample \o <<" ">> \o <<"}">>
    /\ Objects(text) # {}
    /\ gresult = GErr("Parse error: ", "trailing characters")

\* C10: extraction is total: for every text it returns Ok or Err and never
\* panics, the texts whose last '}' is before their first '{' included.
C10_NeverPanics ==
    /\ gpc # "panicked"
    /\ ExtractRan => gpc = "done" /\ gresult.kind \in {"ok", "err"}

----------------------------------------------------------------------------
(* Properties of save_zip *)

\* C5: a canceled dialog yields "canceled", an unconvertible URL yields
\* "Invalid file URL", a failed write yields "write failed: ...", and no
\* error string is shared by two of the three kinds of failure.
C5_ErrorsDistinct ==
    spc = "done" =>
        /\ cause = "cancel" <=> sresult = SErr("canceled")
        /\ cause = "url" <=> sresult = SErr("Invalid file URL")
        /\ cause = "write" <=>
               (sresult.kind = "err" /\
                sresult.msg \in { "write failed: " \o e : e \in IoErrors })
        /\ cause = "none" <=> sresult.kind = "ok"

C5_Witness ==
    /\ spc = "done"
    /\ picked = Canceled
    /\ cause = "cancel"
    /\ sresult = SErr("canceled")

\* C6: whenever save_zip returns Ok(path), the file at the returned path
\* holds exactly the bytes that were saved.
C6_RoundTrip ==
    (spc = "done" /\ sresult.kind = "ok") => ReadBack(sresult.path) = File(bytes)

\* C8: a file is touched only by the one write, at the path the user chose,
\* after the dialog was confirmed and the location resolved; a canceled
\* dialog or an unconvertible URL leaves every file as it was.
C8_OneWriteAtChosenPath ==
    /\ spc \in {"idle", "dialog", "resolve", "write"} => fs = before /\ written = <<>>
    /\ (spc = "done" /\ cause \in {"cancel", "url"}) => fs = before /\ written = <<>>
    /\ (spc = "done" /\ cause \notin {"cancel", "url"}) => Len(written) = 1
    /\ written # <<>> =>
           /\ picked.tag # "none"
           /\ written = <<picked.path>>
           /\ \A q \in Paths \ {picked.path} : fs[q] = before[q]
    /\ sresult.kind = "ok" => fs[picked.path] = File(bytes)

C8_Witness ==
    /\ spc = "done"
    /\ cause = "url"
    /\ picked.tag = "url"
    /\ before[picked.path].exists
    /\ fs = before
    /\ written = <<>>

====
